---- MODULE Spec2Model ----
(***************************************************************************)
(* Model of src/Auditing/new_report.py: the Airflow DAG "new_report" with  *)
(* its two tasks, fetch_mysql_data_and_save_as_csv and                     *)
(* send_email_with_attachment.  Each DAG run executes the two tasks in     *)
(* order; all runs share the one file at CSV_FILE_PATH.  Calls into        *)
(* mysql.connector, pandas, os and smtplib are steps whose outcome         *)
(* (return or raise) is chosen by the environment.                         *)
(***************************************************************************)
EXTENDS Integers, Sequences, FiniteSets, TLC

\* ------------------------------------------------------------------ bounds
MaxCreators == 1
MaxLen == 3

\* --------------------------------------------------------------- constants
ImplicitTlsPort == 465

\* Two DAG runs of the one DAG; nothing in the DAG's arguments keeps them
\* from overlapping.
Runs == {1, 2}

\* Ports the masked smtp_port setting may hold.
SmtpPorts == {ImplicitTlsPort, 587}

\* An optional value: None, or Some(x).
None == <<>>
Some(x) == <<x>>
IsSome(o) == o # <<>>
Get(o) == o[1]

\* ------------------------------------------------------- tabular results
\* A row of the query's projection: creator_id and the three stage counts.
RowOf(id) == <<id, id, 0, id + 1>>

\* The result sets the query can return: rows grouped and ordered by
\* creator_id, so creator ids are strictly increasing.
RECURSIVE IncSeqs(_, _)
IncSeqs(lo, hi) ==
  IF lo > hi THEN {<<>>}
  ELSE IncSeqs(lo + 1, hi) \cup {<<lo>> \o s : s \in IncSeqs(lo + 1, hi)}

Results == {[i \in 1..Len(ids) |-> RowOf(ids[i])] : ids \in IncSeqs(1, MaxCreators)}

Header == <<"creator_id", "stage_1_count", "stage_2_count", "stage_3_count">>

\* df.to_csv(path, index=False): the header line, then one line per row,
\* each value as decimal text.
CsvLine(row) == [j \in 1..Len(row) |-> ToString(row[j])]
ToCsv(d) == <<Header>> \o [i \in 1..Len(d) |-> CsvLine(d[i])]

\* The bytes of a file with these lines: the fields of a line joined by
\* commas, every line ended by a newline.
FieldBytes(f) ==
  CASE f = "creator_id" -> <<99, 114, 101, 97, 116, 111, 114, 95, 105, 100>>
    [] f = "stage_1_count" -> <<115, 116, 97, 103, 101, 95, 49, 95, 99, 111, 117, 110, 116>>
    [] f = "stage_2_count" -> <<115, 116, 97, 103, 101, 95, 50, 95, 99, 111, 117, 110, 116>>
    [] f = "stage_3_count" -> <<115, 116, 97, 103, 101, 95, 51, 95, 99, 111, 117, 110, 116>>
    [] f = "0" -> <<48>> [] f = "1" -> <<49>> [] f = "2" -> <<50>>
    [] f = "3" -> <<51>> [] f = "4" -> <<52>> [] f = "5" -> <<53>>
    [] f = "6" -> <<54>> [] f = "7" -> <<55>> [] f = "8" -> <<56>>
    [] f = "9" -> <<57>>

RECURSIVE LineBytes(_)
LineBytes(l) ==
  IF Len(l) = 0 THEN <<10>>
  ELSE IF Len(l) = 1 THEN FieldBytes(l[1]) \o <<10>>
  ELSE FieldBytes(l[1]) \o <<44>> \o LineBytes(Tail(l))

RECURSIVE ContentBytes(_)
ContentBytes(c) ==
  IF c = <<>> THEN <<>> ELSE LineBytes(Head(c)) \o ContentBytes(Tail(c))

\* encoders.encode_base64: three bytes become four 6-bit digits; a last
\* group of one or two bytes is padded (digit 64 stands for '=').
RECURSIVE Base64Encode(_)
Base64Encode(b) ==
  IF Len(b) = 0 THEN <<>>
  ELSE IF Len(b) = 1 THEN <<b[1] \div 4, (b[1] % 4) * 16, 64, 64>>
  ELSE IF Len(b) = 2
    THEN <<b[1] \div 4, (b[1] % 4) * 16 + b[2] \div 16, (b[2] % 16) * 4, 64>>
  ELSE <<b[1] \div 4, (b[1] % 4) * 16 + b[2] \div 16,
         (b[2] % 16) * 4 + b[3] \div 64, b[3] % 64>>
       \o Base64Encode(SubSeq(b, 4, Len(b)))

\* What a write that raises part-way can leave at the path.
Prefixes(s) == {SubSeq(s, 1, n) : n \in 0..(Len(s) - 1)}

\* ---------------------------------------------------------- recipients
Chars == {"a", "b", " ", ","}

RECURSIVE Strings(_)
Strings(n) ==
  IF n = 0 THEN {<<>>}
  ELSE Strings(n - 1) \cup
       {s \o <<c>> : s \in {t \in Strings(n - 1) : Len(t) = n - 1}, c \in Chars}

\* str.split(','): cut at every comma; k commas give k + 1 tokens.
RECURSIVE SplitFrom(_, _, _)
SplitFrom(s, i, cur) ==
  IF i > Len(s) THEN <<cur>>
  ELSE IF s[i] = "," THEN <<cur>> \o SplitFrom(s, i + 1, <<>>)
  ELSE SplitFrom(s, i + 1, Append(cur, s[i]))

Split(s) == SplitFrom(s, 1, <<>>)

\* str.strip(): drop leading and trailing whitespace.
RECURSIVE LStrip(_)
LStrip(t) == IF t # <<>> /\ Head(t) = " " THEN LStrip(Tail(t)) ELSE t

RECURSIVE RStrip(_)
RStrip(t) ==
  IF t # <<>> /\ t[Len(t)] = " " THEN RStrip(SubSeq(t, 1, Len(t) - 1)) ELSE t

Strip(t) == RStrip(LStrip(t))

\* Fault variant: the tokens are not stripped.
RecipientsListNoStrip(s) == Split(s)

\* [email.strip() for email in recipient_emails.split(',')]
RecipientsList(s) == [i \in 1..Len(Split(s)) |-> Strip(Split(s)[i])]

\* The run dates (ds) a trigger supplies.
Dates == {"2025-08-04", "2025-08-05"}

\* The date literal in the WHERE clause of sql_query.
QueryDate == "2025-08-04"

\* f"Daily Leads Report - {kwargs['ds']}"
Subject(d) == <<"Daily Leads Report - ", d>>

\* The HTML body, which names kwargs['ds'].
Body(d) == <<"Please find the attached CSV file with the leads data for ", d, ".">>

\* The recipient strings a trigger supplies in the pipeline specification.
RecipientInputs == {<<"a">>, <<"a", ",", "b">>, <<"a", ",">>}

\* ------------------------------------------------------------------ state
VARIABLES
  pc,                \* per run: the statement the run is at
  fetchState,        \* per run: state of task fetch_mysql_data_and_save_as_csv
  sendState,         \* per run: state of task send_email_with_attachment
  exc,               \* per run: the exception in flight in the current try
  errors,            \* per run: the steps that raised
  conn,              \* per run: local conn of the fetch task
  dbCloses,          \* per run: number of conn.close() calls
  df,                \* per run: local df of the fetch task
  recipient_emails,  \* per run: dag_run.conf's recipient string
  ds,                \* per run: the run date, kwargs['ds']
  queried,           \* per run: the date the executed query filtered on
  msg,               \* per run: the message composed by the send task
  sent,              \* per run: the message handed to sendmail
  payload,           \* per run: the bytes read from the artifact file
  server,            \* per run: local server of the send task
  smtpLog,           \* per run: the calls made on the SMTP session
  recipients_list,   \* per run: the list handed to sendmail
  file,              \* the file at CSV_FILE_PATH, shared by all runs
  smtp_port          \* the configured SMTP port

vars == <<pc, fetchState, sendState, exc, errors, conn, dbCloses, df,
          recipient_emails, ds, queried, msg, sent, payload, server, smtpLog,
          recipients_list, file, smtp_port>>

fetchVars == <<conn, dbCloses, df>>
sendVars == <<payload, server, smtpLog, recipients_list>>
mailVars == <<msg, sent>>

\* ---------------------------------------------------- exception handling
\* Fault variant: the handler prints and does not re-raise what it caught.
FetchHandlerSwallow(e) == IF e = "mysql.Error" THEN "none" ELSE e

\* except mysql.connector.Error: print, raise.  Other exceptions pass by.
FetchHandler(e) == e

\* Fault variant: the handler prints and does not re-raise.
AttachHandlerSwallow(e) == "none"

\* except FileNotFoundError: print, raise.
AttachHandler(e) == e

\* Fault variant: the handler prints and does not re-raise.
SendHandlerSwallow(e) == "none"

\* except Exception: print, raise.
SendHandler(e) == e

\* if conn and conn.is_connected()
ShouldClose(c) == c # "none" /\ c = "open"

\* Fault variant: quit only a session that reached TLS.
ShouldQuitSecured(srv) == srv = "tls"

\* if server
ShouldQuit(srv) == srv # "none"

\* Fault variant: the port test never selects implicit TLS.
UseImplicitTlsNever(port) == FALSE

\* if smtp_port == 465
UseImplicitTls(port) == port = ImplicitTlsPort

\* Fault variant: the send task runs once fetch has ended, however it ended.
UpstreamDone(st) == st \in {"success", "failed"}

\* send_email_with_attachment(file_path=csv_file): the send task takes the
\* fetch task's return value, so it runs only after fetch succeeded.
UpstreamOk(st) == st = "success"

\* Fault variant: the file is opened for appending.
WrittenAppend(old, new) == old \o new

\* df.to_csv(CSV_FILE_PATH, index=False) opens the path for writing, which
\* truncates what is there.
Written(old, new) == new

\* Fault variant: the failure is ignored and the next statement runs.
AfterRaiseFallThrough(next) == next

\* A call in the SMTP try block raised: control leaves the block for the
\* handler and the finally block, whatever statement came next.
AfterRaise(next) == "send_finally"

\* Fault variant: the file is opened in a mode that truncates it.
OpenedTruncating(content) == <<>>

\* open(file_path, "rb"): opening for reading leaves the file as it is.
OpenedForRead(content) == content

\* Fault variant: the attachment is read again from the path at send time.
AsStringReread(m, onDisk) ==
  [m EXCEPT !.attachment =
     IF IsSome(onDisk) THEN Some(Base64Encode(ContentBytes(Get(onDisk)))) ELSE None]

\* msg.as_string(): the message as composed in memory, whatever is at the
\* path by now.
AsString(m, onDisk) == m

\* ------------------------------------------------------------------ init
InitRun ==
  /\ fetchState = [r \in Runs |-> "none"]
  /\ sendState = [r \in Runs |-> "none"]
  /\ exc = [r \in Runs |-> "none"]
  /\ errors = [r \in Runs |-> {}]
  /\ conn = [r \in Runs |-> "none"]
  /\ dbCloses = [r \in Runs |-> 0]
  /\ df = [r \in Runs |-> None]
  /\ payload = [r \in Runs |-> None]
  /\ server = [r \in Runs |-> "none"]
  /\ smtpLog = [r \in Runs |-> <<>>]
  /\ recipients_list = [r \in Runs |-> None]
  /\ queried = [r \in Runs |-> None]
  /\ msg = [r \in Runs |-> None]
  /\ sent = [r \in Runs |-> None]
  /\ file \in {None} \cup {Some(ToCsv(d)) : d \in Results}
  /\ smtp_port \in SmtpPorts

Init ==
  /\ InitRun
  /\ pc = [r \in Runs |-> "idle"]
  /\ recipient_emails = [r \in Runs |-> <<>>]
  /\ ds = [r \in Runs |-> ""]

\* -------------------------------------------------------------- trigger
\* A DAG run is created with its conf and its run date.
Trigger(r) ==
  /\ pc[r] = "idle"
  /\ \E s \in RecipientInputs :
       recipient_emails' = [recipient_emails EXCEPT ![r] = s]
  /\ \E d \in Dates : ds' = [ds EXCEPT ![r] = d]
  /\ fetchState' = [fetchState EXCEPT ![r] = "running"]
  /\ pc' = [pc EXCEPT ![r] = "connect"]
  /\ UNCHANGED <<sendState, exc, errors, fetchVars, queried, sendVars,
                 mailVars, file, smtp_port>>

\* ------------------------------------- fetch_mysql_data_and_save_as_csv
\* conn = mysql.connector.connect(**db_config)
Connect(r) ==
  /\ pc[r] = "connect"
  /\ \/ /\ conn' = [conn EXCEPT ![r] = "open"]
        /\ pc' = [pc EXCEPT ![r] = "query"]
        /\ UNCHANGED <<exc, errors>>
     \/ /\ exc' = [exc EXCEPT ![r] = FetchHandler("mysql.Error")]
        /\ errors' = [errors EXCEPT ![r] = @ \cup {<<"connect", "mysql.Error">>}]
        /\ pc' = [pc EXCEPT ![r] = "fetch_finally"]
        /\ UNCHANGED conn
  /\ UNCHANGED <<fetchState, sendState, dbCloses, df, recipient_emails, ds,
                 queried, sendVars, mailVars, file, smtp_port>>

\* df = pd.read_sql(sql_query, conn): a full result, or an error that
\* leaves the connection up (rejected statement) or down (server gone).
Query(r) ==
  /\ pc[r] = "query"
  /\ \/ /\ \E d \in Results : df' = [df EXCEPT ![r] = Some(d)]
        /\ UNCHANGED <<exc, errors, conn>>
     \/ /\ \E e \in {"mysql.Error", "DatabaseError"} :
             /\ exc' = [exc EXCEPT ![r] = FetchHandler(e)]
             /\ errors' = [errors EXCEPT ![r] = @ \cup {<<"query", e>>}]
        /\ \E c \in {"open", "lost"} : conn' = [conn EXCEPT ![r] = c]
        /\ UNCHANGED df
  /\ queried' = [queried EXCEPT ![r] = Some(QueryDate)]
  /\ pc' = [pc EXCEPT ![r] = "fetch_finally"]
  /\ UNCHANGED <<fetchState, sendState, dbCloses, recipient_emails, ds,
                 sendVars, mailVars, file, smtp_port>>

\* finally: close the connection when it is there and connected; then the
\* exception in flight, if any, ends the task.
FetchFinally(r) ==
  /\ pc[r] = "fetch_finally"
  /\ IF ShouldClose(conn[r])
       THEN /\ conn' = [conn EXCEPT ![r] = "closed"]
            /\ dbCloses' = [dbCloses EXCEPT ![r] = @ + 1]
       ELSE UNCHANGED <<conn, dbCloses>>
  /\ IF exc[r] = "none"
       THEN /\ pc' = [pc EXCEPT ![r] = "exists"]
            /\ UNCHANGED fetchState
       ELSE /\ pc' = [pc EXCEPT ![r] = "fetch_done"]
            /\ fetchState' = [fetchState EXCEPT ![r] = "failed"]
  /\ UNCHANGED <<sendState, exc, errors, df, recipient_emails, ds, queried,
                 sendVars, mailVars, file, smtp_port>>

\* if os.path.exists(CSV_FILE_PATH)
Exists(r) ==
  /\ pc[r] = "exists"
  /\ pc' = [pc EXCEPT ![r] = IF IsSome(file) THEN "remove" ELSE "to_csv"]
  /\ UNCHANGED <<fetchState, sendState, exc, errors, fetchVars,
                 recipient_emails, ds, queried, sendVars, mailVars, file,
                 smtp_port>>

\* os.remove(CSV_FILE_PATH): outside any try, so a raise ends the task.
Remove(r) ==
  /\ pc[r] = "remove"
  /\ \/ /\ IsSome(file)
        /\ file' = None
        /\ pc' = [pc EXCEPT ![r] = "to_csv"]
        /\ UNCHANGED <<fetchState, errors>>
     \/ /\ errors' = [errors EXCEPT ![r] = @ \cup
                     {<<"remove", IF IsSome(file) THEN "OSError"
                                  ELSE "FileNotFoundError">>}]
        /\ fetchState' = [fetchState EXCEPT ![r] = "failed"]
        /\ pc' = [pc EXCEPT ![r] = "fetch_done"]
        /\ UNCHANGED file
  /\ UNCHANGED <<sendState, exc, fetchVars, recipient_emails, ds, queried,
                 sendVars, mailVars, smtp_port>>

\* df.to_csv(CSV_FILE_PATH, index=False); return CSV_FILE_PATH.  A write
\* that raises leaves the old file (open refused) or a part of the new one.
WriteCsv(r) ==
  /\ pc[r] = "to_csv"
  /\ \/ /\ IsSome(df[r])
        /\ file' = Some(Written(IF IsSome(file) THEN Get(file) ELSE <<>>,
                                ToCsv(Get(df[r]))))
        /\ fetchState' = [fetchState EXCEPT ![r] = "success"]
        /\ UNCHANGED errors
     \/ /\ IF IsSome(df[r])
             THEN file' \in {file} \cup {Some(p) : p \in Prefixes(ToCsv(Get(df[r])))}
             ELSE UNCHANGED file
        /\ errors' = [errors EXCEPT ![r] = @ \cup
                     {<<"to_csv", IF IsSome(df[r]) THEN "OSError"
                                  ELSE "UnboundLocalError">>}]
        /\ fetchState' = [fetchState EXCEPT ![r] = "failed"]
  /\ pc' = [pc EXCEPT ![r] = "fetch_done"]
  /\ UNCHANGED <<sendState, exc, fetchVars, recipient_emails, ds, queried,
                 sendVars, mailVars, smtp_port>>

\* ---------------------------------------------------- task dependencies
\* csv_file = fetch(); send(file_path=csv_file): send starts once fetch
\* has succeeded; after a failed fetch it is marked upstream_failed.  The
\* send task begins by composing msg: subject and HTML body from ds.
Schedule(r) ==
  /\ pc[r] = "fetch_done"
  /\ IF UpstreamOk(fetchState[r])
       THEN /\ sendState' = [sendState EXCEPT ![r] = "running"]
            /\ msg' = [msg EXCEPT ![r] =
                   Some([subject |-> Subject(ds[r]), body |-> Body(ds[r]),
                         attachment |-> None])]
            /\ pc' = [pc EXCEPT ![r] = "read_attachment"]
       ELSE /\ sendState' = [sendState EXCEPT ![r] = "upstream_failed"]
            /\ pc' = [pc EXCEPT ![r] = "done"]
            /\ UNCHANGED msg
  /\ UNCHANGED <<fetchState, exc, errors, fetchVars, recipient_emails, ds,
                 queried, sendVars, sent, file, smtp_port>>

\* ------------------------------------------- send_email_with_attachment
\* with open(file_path, "rb") as attachment: part.set_payload(read());
\* encoders.encode_base64(part); msg.attach(part)
ReadAttachment(r) ==
  /\ pc[r] = "read_attachment"
  /\ \/ /\ IsSome(file)
        /\ file' = Some(OpenedForRead(Get(file)))
        /\ payload' = [payload EXCEPT ![r] = file']
        /\ msg' = [msg EXCEPT ![r] = Some([Get(@) EXCEPT !.attachment =
                      Some(Base64Encode(ContentBytes(Get(file'))))])]
        /\ pc' = [pc EXCEPT ![r] = "smtp_connect"]
        /\ UNCHANGED <<sendState, exc, errors>>
     \/ /\ exc' = [exc EXCEPT ![r] =
                     IF IsSome(file) THEN "OSError"
                     ELSE AttachHandler("FileNotFoundError")]
        /\ errors' = [errors EXCEPT ![r] = @ \cup
                     {<<"attach", IF IsSome(file) THEN "OSError"
                                  ELSE "FileNotFoundError">>}]
        /\ sendState' = [sendState EXCEPT ![r] =
                     IF exc'[r] = "none" THEN @ ELSE "failed"]
        /\ pc' = [pc EXCEPT ![r] =
                     IF exc'[r] = "none" THEN "smtp_connect" ELSE "done"]
        /\ UNCHANGED <<payload, msg, file>>
  /\ UNCHANGED <<fetchState, fetchVars, recipient_emails, ds, queried, server,
                 smtpLog, recipients_list, sent, smtp_port>>

Logged(r, op, ok) == [smtpLog EXCEPT ![r] = Append(@, <<op, ok>>)]

\* A call in the try block raised: the handler prints and re-raises, and
\* control goes to the finally block.
SendRaise(r, step, e) ==
  /\ exc' = [exc EXCEPT ![r] = SendHandler(e)]
  /\ errors' = [errors EXCEPT ![r] = @ \cup {<<step, e>>}]

\* server = smtplib.SMTP_SSL(host, port) or server = smtplib.SMTP(host, port)
SmtpConnect(r) ==
  /\ pc[r] = "smtp_connect"
  /\ LET op == IF UseImplicitTls(smtp_port) THEN "SMTP_SSL" ELSE "SMTP" IN
     \/ /\ server' = [server EXCEPT ![r] = IF op = "SMTP_SSL" THEN "tls" ELSE "plain"]
        /\ smtpLog' = Logged(r, op, TRUE)
        /\ pc' = [pc EXCEPT ![r] = IF op = "SMTP_SSL" THEN "login" ELSE "starttls"]
        /\ UNCHANGED <<exc, errors>>
     \/ /\ SendRaise(r, "smtp_connect", "SMTPConnectError")
        /\ smtpLog' = Logged(r, op, FALSE)
        /\ pc' = [pc EXCEPT ![r] = "send_finally"]
        /\ UNCHANGED server
  /\ UNCHANGED <<fetchState, sendState, fetchVars, recipient_emails, ds,
                 queried, payload, recipients_list, mailVars, file, smtp_port>>

\* server.starttls()
StartTls(r) ==
  /\ pc[r] = "starttls"
  /\ \/ /\ server' = [server EXCEPT ![r] = "tls"]
        /\ smtpLog' = Logged(r, "starttls", TRUE)
        /\ pc' = [pc EXCEPT ![r] = "login"]
        /\ UNCHANGED <<exc, errors>>
     \/ /\ SendRaise(r, "starttls", "SMTPException")
        /\ smtpLog' = Logged(r, "starttls", FALSE)
        /\ pc' = [pc EXCEPT ![r] = AfterRaise("login")]
        /\ UNCHANGED server
  /\ UNCHANGED <<fetchState, sendState, fetchVars, recipient_emails, ds,
                 queried, payload, recipients_list, mailVars, file, smtp_port>>

\* server.login(smtp_user, smtp_password)
Login(r) ==
  /\ pc[r] = "login"
  /\ \/ /\ smtpLog' = Logged(r, "login", TRUE)
        /\ pc' = [pc EXCEPT ![r] = "sendmail"]
        /\ UNCHANGED <<exc, errors>>
     \/ /\ SendRaise(r, "login", "SMTPAuthenticationError")
        /\ smtpLog' = Logged(r, "login", FALSE)
        /\ pc' = [pc EXCEPT ![r] = AfterRaise("sendmail")]
  /\ UNCHANGED <<fetchState, sendState, fetchVars, recipient_emails, ds,
                 queried, payload, server, recipients_list, mailVars, file,
                 smtp_port>>

\* recipients_list = [...]; server.sendmail(sender, recipients_list, msg).
\* sendmail returns when at least one recipient was accepted (the refusals
\* it returns are not looked at) and raises otherwise.
Sendmail(r) ==
  /\ pc[r] = "sendmail"
  /\ recipients_list' = [recipients_list EXCEPT ![r] =
                           Some(RecipientsList(recipient_emails[r]))]
  /\ \/ /\ smtpLog' = Logged(r, "sendmail", TRUE)
        /\ UNCHANGED <<exc, errors>>
     \/ /\ SendRaise(r, "sendmail", "SMTPException")
        /\ smtpLog' = Logged(r, "sendmail", FALSE)
  /\ sent' = [sent EXCEPT ![r] = Some(AsString(Get(msg[r]), file))]
  /\ pc' = [pc EXCEPT ![r] = "send_finally"]
  /\ UNCHANGED <<fetchState, sendState, fetchVars, recipient_emails, ds,
                 queried, payload, server, msg, file, smtp_port>>

\* finally: if server: server.quit().  quit() closes the socket whether it
\* returns or raises; a raise from it ends the task as a failure.
SendFinally(r) ==
  /\ pc[r] = "send_finally"
  /\ IF ShouldQuit(server[r])
       THEN \E ok \in BOOLEAN :
              /\ server' = [server EXCEPT ![r] = "closed"]
              /\ smtpLog' = Logged(r, "quit", ok)
              /\ errors' = [errors EXCEPT ![r] =
                     IF ok THEN @ ELSE @ \cup {<<"quit", "SMTPServerDisconnected">>}]
              /\ sendState' = [sendState EXCEPT ![r] =
                     IF exc[r] = "none" /\ ok THEN "success" ELSE "failed"]
       ELSE /\ sendState' = [sendState EXCEPT ![r] =
                     IF exc[r] = "none" THEN "success" ELSE "failed"]
            /\ UNCHANGED <<server, smtpLog, errors>>
  /\ pc' = [pc EXCEPT ![r] = "done"]
  /\ UNCHANGED <<fetchState, exc, fetchVars, recipient_emails, ds, queried,
                 payload, recipients_list, mailVars, file, smtp_port>>

\* --------------------------------------------------------- specification
Step(r) ==
  \/ Connect(r) \/ Query(r) \/ FetchFinally(r)
  \/ Exists(r) \/ Remove(r) \/ WriteCsv(r)
  \/ Schedule(r)
  \/ ReadAttachment(r) \/ SmtpConnect(r) \/ StartTls(r)
  \/ Login(r) \/ Sendmail(r) \/ SendFinally(r)

Next == \E r \in Runs : Trigger(r) \/ Step(r)

Spec == Init /\ [][Next]_vars

\* One run whose recipient string ranges over every string of the bound.
InitRecipients ==
  /\ InitRun
  /\ pc = [r \in Runs |-> IF r = 1 THEN "connect" ELSE "idle"]
  /\ \E s \in Strings(MaxLen) :
       recipient_emails = [r \in Runs |-> IF r = 1 THEN s ELSE <<>>]
  /\ \E d \in Dates : ds = [r \in Runs |-> IF r = 1 THEN d ELSE ""]

NextRecipients == \E r \in Runs : Step(r)

SpecRecipients == InitRecipients /\ [][NextRecipients]_vars

\* ------------------------------------------------------------ properties
FetchSteps == {"connect", "query", "remove", "to_csv"}
SendSteps == {"attach", "smtp_connect", "starttls", "login", "sendmail", "quit"}

FetchEnded(r) == fetchState[r] \in {"success", "failed"}
SendEnded(r) == sendState[r] \in {"success", "failed"}

\* The state Airflow gives the DAG run once its tasks have ended.
RunState(r) ==
  IF pc[r] # "done" THEN "running"
  ELSE IF sendState[r] = "success" THEN "success" ELSE "failed"

Called(r, op) == \E i \in DOMAIN smtpLog[r] : smtpLog[r][i][1] = op
Succeeded(r, op) == \E i \in DOMAIN smtpLog[r] : smtpLog[r][i] = <<op, TRUE>>
Opened(r) == Succeeded(r, "SMTP") \/ Succeeded(r, "SMTP_SSL")
EmailSent(r) == Succeeded(r, "sendmail")

\* C1: in the fetch task, whatever the outcome of connect and query, a
\* connection that was opened has been closed exactly once when the task
\* ends, and close is never called on a connection that was never opened.
C1_ConnClosedExactlyOnce ==
  \A r \in Runs :
    /\ conn[r] = "none" => dbCloses[r] = 0
    /\ FetchEnded(r) /\ conn[r] # "none" => conn[r] = "closed" /\ dbCloses[r] = 1

\* C2: once the send task has opened an SMTP connection, the connection is
\* closed when the task ends, on every exit path; after a rejected login
\* the task has failed and the connection is closed.
C2_SmtpClosedOnEveryExit ==
  \A r \in Runs :
    /\ SendEnded(r) /\ Opened(r) => server[r] = "closed" /\ Called(r, "quit")
    /\ SendEnded(r) /\ <<"login", FALSE>> \in {smtpLog[r][i] : i \in DOMAIN smtpLog[r]}
         => sendState[r] = "failed" /\ server[r] = "closed"

C2_Witness ==
  \E r \in Runs :
    /\ SendEnded(r)
    /\ smtpLog[r] = <<<<"SMTP", TRUE>>, <<"starttls", TRUE>>,
                      <<"login", FALSE>>, <<"quit", TRUE>>>>
    /\ server[r] = "closed"

\* C3: when the artifact file is missing at the time the send task opens
\* it, the task fails with FileNotFoundError and that run never constructs
\* an SMTP session, logs in or calls sendmail.
C3_MissingFileNoSmtp ==
  \A r \in Runs :
    <<"attach", "FileNotFoundError">> \in errors[r] =>
      /\ sendState[r] = "failed"
      /\ exc[r] = "FileNotFoundError"
      /\ pc[r] = "done"
      /\ smtpLog[r] = <<>>
      /\ server[r] = "none"
      /\ recipients_list[r] = None

C3_Witness ==
  \E r \in Runs :
    /\ <<"attach", "FileNotFoundError">> \in errors[r]
    /\ fetchState[r] = "success"
    /\ sendState[r] = "failed"

\* C4: when the fetch task fails at any of its steps (connect, query,
\* remove, write), the run ends failed and the send task is never started:
\* nothing is read for a message and no SMTP call is made in that run.
C4_FetchFailureSkipsSend ==
  \A r \in Runs :
    (\E e \in errors[r] : e[1] \in FetchSteps) /\ pc[r] \notin {"connect", "query", "fetch_finally"} =>
      /\ fetchState[r] = "failed"
      /\ sendState[r] \in {"none", "upstream_failed"}
      /\ payload[r] = None
      /\ smtpLog[r] = <<>>
      /\ server[r] = "none"
      /\ pc[r] = "done" => RunState(r) = "failed"

C4_Witness ==
  \E r \in Runs :
    /\ \E x \in {"OSError", "FileNotFoundError"} : <<"remove", x>> \in errors[r]
    /\ pc[r] = "done"
    /\ sendState[r] = "upstream_failed"

\* C5: a run that ends failed has sent no email: whenever sendmail
\* succeeded, the run ends in success.
C5_FailedRunSentNothing ==
  \A r \in Runs : RunState(r) = "failed" => ~EmailSent(r)

\* C6: login (and sendmail) happen only on a secured session: with port
\* 465 the session is opened with SMTP_SSL, with any other port it is
\* opened with SMTP and starttls has succeeded first; after a failed
\* starttls neither login nor sendmail is called.
C6_LoginOnlyWhenSecured ==
  \A r \in Runs :
    /\ smtpLog[r] # <<>> =>
         smtpLog[r][1][1] = (IF smtp_port = ImplicitTlsPort THEN "SMTP_SSL" ELSE "SMTP")
    /\ \A i \in DOMAIN smtpLog[r] :
         smtpLog[r][i][1] \in {"login", "sendmail"} =>
           \/ smtp_port = ImplicitTlsPort /\ i > 1 /\ smtpLog[r][1] = <<"SMTP_SSL", TRUE>>
           \/ /\ smtp_port # ImplicitTlsPort /\ i > 2
              /\ smtpLog[r][1] = <<"SMTP", TRUE>>
              /\ smtpLog[r][2] = <<"starttls", TRUE>>
    /\ <<"starttls", FALSE>> \in {smtpLog[r][i] : i \in DOMAIN smtpLog[r]} =>
         ~Called(r, "login") /\ ~Called(r, "sendmail")

C6_Witness ==
  \E r, q \in Runs :
    /\ smtp_port # ImplicitTlsPort
    /\ r # q
    /\ Succeeded(r, "login")
    /\ smtpLog[q] = <<<<"SMTP", TRUE>>, <<"starttls", FALSE>>, <<"quit", TRUE>>>>

\* C7: no failure is suppressed: a task in which a step raised never
\* reports success, and once the run has ended that task has failed.
C7_FailuresSurface ==
  \A r \in Runs :
    /\ (\E e \in errors[r] : e[1] \in FetchSteps) => fetchState[r] # "success"
    /\ (\E e \in errors[r] : e[1] \in SendSteps) => sendState[r] # "success"
    /\ pc[r] = "done" =>
         /\ (\E e \in errors[r] : e[1] \in FetchSteps) => fetchState[r] = "failed"
         /\ (\E e \in errors[r] : e[1] \in SendSteps) => sendState[r] = "failed"

C7_Witness ==
  \E r \in Runs :
    /\ pc[r] = "done"
    /\ <<"login", "SMTPAuthenticationError">> \in errors[r]
    /\ sendState[r] = "failed"

\* C8: every element of the list handed to sendmail is a non-empty
\* trimmed address.
C8_RecipientsNonEmpty ==
  \A r \in Runs :
    IsSome(recipients_list[r]) =>
      \A i \in DOMAIN Get(recipients_list[r]) : Get(recipients_list[r])[i] # <<>>

\* The split-and-trim reference for C9, stated by positions: the k-th token
\* lies between the (k-1)-th and the k-th comma, and its trimmed form runs
\* from its first to its last character that is not a blank.
CommaPos(s) == {i \in 1..Len(s) : s[i] = ","}
NthComma(s, k) ==
  IF k = 0 THEN 0
  ELSE IF k > Cardinality(CommaPos(s)) THEN Len(s) + 1
  ELSE CHOOSE i \in CommaPos(s) : Cardinality({j \in CommaPos(s) : j < i}) = k - 1
Token(s, k) == SubSeq(s, NthComma(s, k - 1) + 1, NthComma(s, k) - 1)
Trimmed(t) ==
  LET ink == {i \in 1..Len(t) : t[i] # " "} IN
  IF ink = {} THEN <<>>
  ELSE SubSeq(t, CHOOSE i \in ink : \A j \in ink : i <= j,
                 CHOOSE i \in ink : \A j \in ink : i >= j)
SplitTrimmed(s) == [k \in 1..(Cardinality(CommaPos(s)) + 1) |-> Trimmed(Token(s, k))]

\* C9: for every non-empty recipient string, the list handed to sendmail is
\* the sequence of its comma-separated tokens, each trimmed, in order and
\* in number (duplicates kept).
C9_RecipientsAreSplitTrimmed ==
  \A r \in Runs :
    IsSome(recipients_list[r]) /\ recipient_emails[r] # <<>> =>
      Get(recipients_list[r]) = SplitTrimmed(recipient_emails[r])

C9_Witness ==
  \E r \in Runs :
    /\ recipient_emails[r] = <<" ", "a", ",">>
    /\ recipients_list[r] = Some(<<<<"a">>, <<>>>>)

\* C10: a successful write leaves at the path exactly the serialization of
\* the result just written, whatever was there before: of two extractions
\* in sequence only the second one's result is in the file.
C10_WriteReplaces ==
  [][\A r \in Runs :
       pc[r] = "to_csv" /\ fetchState'[r] = "success" =>
         file' = Some(ToCsv(Get(df[r])))]_vars

C10_Witness ==
  \E r, q \in Runs :
    /\ r # q
    /\ fetchState[r] = "success" /\ fetchState[q] = "success"
    /\ pc[r] \notin {"idle", "connect", "query", "fetch_finally", "exists", "remove", "to_csv", "fetch_done"}
    /\ pc[q] = "fetch_done"
    /\ Len(Get(df[r])) > Len(Get(df[q]))
    /\ file = Some(ToCsv(Get(df[q])))

\* C11: within a run the run date is the date the extraction query filters
\* on, and the subject is "Daily Leads Report - " followed by the run date.
C11_RunDateInQueryAndSubject ==
  \A r \in Runs :
    /\ IsSome(queried[r]) => Get(queried[r]) = ds[r]
    /\ IsSome(msg[r]) => Get(msg[r]).subject = <<"Daily Leads Report - ", ds[r]>>

\* C12: the runs race on the shared path.  A run whose send stage attaches
\* something other than its own extraction's file, or finds the file
\* missing, is never alone: while the other run has not started, the send
\* stage attaches exactly what its own extraction wrote.  The witnesses are
\* the two races: the attachment is the other run's file; the file was
\* removed by the other run's extraction.
C12_AloneNoRace ==
  \A r, q \in Runs :
    r # q /\ pc[q] = "idle" =>
      /\ IsSome(payload[r]) =>
           IsSome(df[r]) /\ payload[r] = Some(ToCsv(Get(df[r])))
      /\ <<"attach", "FileNotFoundError">> \notin errors[r]

C12_Witness ==
  \E r, q \in Runs :
    /\ r # q
    /\ IsSome(payload[r]) /\ IsSome(df[r]) /\ IsSome(df[q])
    /\ fetchState[q] = "success"
    /\ df[q] # df[r]
    /\ payload[r] = Some(ToCsv(Get(df[q])))

C12_WitnessRemoved ==
  \E r, q \in Runs :
    /\ r # q
    /\ fetchState[r] = "success"
    /\ <<"attach", "FileNotFoundError">> \in errors[r]
    /\ pc[q] = "to_csv"
    /\ file = None

\* C13: the calls on a run's SMTP session come in the order open, starttls
\* (on a plaintext session only), login, sendmail, quit: each call follows
\* the success of the one before it, sendmail is called at most once and
\* only right after a successful login, and quit is the last call.
C13_SessionOrder ==
  \A r \in Runs :
    LET L == smtpLog[r] IN
    /\ \A i \in DOMAIN L :
         /\ L[i][1] \in {"SMTP", "SMTP_SSL"} => i = 1
         /\ L[i][1] = "starttls" => i = 2 /\ L[1] = <<"SMTP", TRUE>>
         /\ L[i][1] = "login" =>
              i > 1 /\ L[i - 1] \in {<<"SMTP_SSL", TRUE>>, <<"starttls", TRUE>>}
         /\ L[i][1] = "sendmail" => i > 1 /\ L[i - 1] = <<"login", TRUE>>
         /\ L[i][1] = "quit" => i = Len(L) /\ i > 1 /\ L[1][2]
    /\ Cardinality({i \in DOMAIN L : L[i][1] = "sendmail"}) <= 1

C13_Witness ==
  \E r \in Runs :
    smtpLog[r] = <<<<"SMTP", TRUE>>, <<"starttls", TRUE>>, <<"login", TRUE>>,
                   <<"sendmail", TRUE>>, <<"quit", TRUE>>>>

\* The inverse of the base64 encoding: four digits give three bytes, a
\* padded last group gives one or two.
RECURSIVE Base64Decode(_)
Base64Decode(t) ==
  IF Len(t) < 4 THEN <<>>
  ELSE (IF t[3] = 64 THEN <<t[1] * 4 + t[2] \div 16>>
        ELSE IF t[4] = 64
          THEN <<t[1] * 4 + t[2] \div 16, (t[2] % 16) * 16 + t[3] \div 4>>
        ELSE <<t[1] * 4 + t[2] \div 16, (t[2] % 16) * 16 + t[3] \div 4,
               (t[3] % 4) * 64 + t[4]>>)
       \o Base64Decode(SubSeq(t, 5, Len(t)))

\* C14: the send stage reads the artifact once, before any SMTP call: what
\* was read never changes afterwards, and the attachment handed to sendmail
\* decodes to exactly the bytes of that read, whatever has happened to the
\* file since.
C14_AttachmentIsTheSingleRead ==
  /\ [](\A r \in Runs :
          /\ ~IsSome(payload[r]) => smtpLog[r] = <<>> /\ sent[r] = None
          /\ IsSome(sent[r]) =>
               /\ IsSome(payload[r])
               /\ IsSome(Get(sent[r]).attachment)
               /\ Base64Decode(Get(Get(sent[r]).attachment))
                    = ContentBytes(Get(payload[r])))
  /\ [][\A r \in Runs : IsSome(payload[r]) => payload'[r] = payload[r]]_vars

C14_Witness ==
  \E r \in Runs :
    /\ EmailSent(r)
    /\ IsSome(sent[r])
    /\ file # payload[r]
    /\ Len(Get(payload[r])) > 1

\* C15: no step of the send task deletes or changes the artifact file,
\* whether the task goes on to succeed or to fail.
C15_SendLeavesFile ==
  [][\A r \in Runs :
       /\ pc[r] \in {"fetch_done", "read_attachment", "smtp_connect", "starttls",
                     "login", "sendmail", "send_finally"}
       /\ pc'[r] # pc[r]
       => file' = file]_vars

C15_Witness ==
  \E r, q \in Runs :
    /\ r # q /\ pc[q] = "idle"
    /\ pc[r] = "done"
    /\ sendState[r] = "failed"
    /\ <<"sendmail", "SMTPException">> \in errors[r]
    /\ file = Some(ToCsv(Get(df[r])))

\* C16: a run whose connect or query failed never touches the artifact
\* path: no step it takes up to and after the failure removes or rewrites
\* the file.
C16_FailedFetchLeavesFile ==
  [][\A r \in Runs :
       /\ \/ pc[r] \in {"connect", "query", "fetch_finally"}
          \/ \E e \in errors[r] : e[1] \in {"connect", "query"}
       /\ pc'[r] # pc[r]
       => file' = file]_vars

C16_Witness ==
  \E r, q \in Runs :
    /\ r # q /\ pc[q] = "idle"
    /\ pc[r] = "done"
    /\ <<"query", "DatabaseError">> \in errors[r]
    /\ IsSome(file)

====
